---- MODULE Spec2Model ----
(***************************************************************************)
(* dom_sanitizer: the directive engines (Permissive, Restrictive) that     *)
(* rewrite a dom_query tree in place under a policy.  The tree is modelled *)
(* as an arena of nodes (ids), each with a kind, a name, a parent link, an *)
(* ordered child list, a set of attributes and (text nodes) a text value.  *)
(***************************************************************************)
EXTENDS Integers, Sequences, FiniteSets, TLC

\* ------------------------------------------------------------------ bounds
\* Nodes placed freely under <body> in the enumerated documents.
MaxExtra == 2
\* Children of the element that sits between `before' and `after' in the
\* wide documents.
MaxKids == 3

\* ------------------------------------------------------------- the arena
\* Option::None for a node handle.
None == 0 - 1
\* The document root (Document::root()).
Root == 0

Permissive == "Permissive"
Restrictive == "Restrictive"

\* AttributeRule.element / AttrMatcher.element_scope = None: every element.
AnyElement == "*"

SeqToSet(s) == {s[i] : i \in 1..Len(s)}

RECURSIVE SeqWithout(_, _)
SeqWithout(s, x) ==
  IF s = <<>> THEN <<>>
  ELSE IF Head(s) = x THEN SeqWithout(Tail(s), x)
  ELSE <<Head(s)>> \o SeqWithout(Tail(s), x)

\* Position of x in s (0 when absent).
IndexOf(s, x) ==
  IF x \in SeqToSet(s) THEN CHOOSE i \in 1..Len(s) : s[i] = x ELSE 0

NodesOf(d) == DOMAIN d.par

is_element(d, n) == d.kind[n] = "elem"
is_text(d, n) == d.kind[n] = "text"
\* dom_query: documents, fragments and elements may have children.
may_have_children(d, n) == d.kind[n] \in {"doc", "elem"}

parent(d, n) == d.par[n]

first_child(d, n) == IF d.kids[n] = <<>> THEN None ELSE Head(d.kids[n])

\* The siblings that follow n under its parent, in order.
FollowingSiblings(d, n) ==
  IF d.par[n] = None THEN <<>>
  ELSE LET ks == d.kids[d.par[n]]
           i == IndexOf(ks, n)
       IN SubSeq(ks, i + 1, Len(ks))

next_sibling(d, n) ==
  LET fs == FollowingSiblings(d, n) IN IF fs = <<>> THEN None ELSE Head(fs)

\* First element of a node sequence (None when there is none).
RECURSIVE FirstElementIn(_, _)
FirstElementIn(d, s) ==
  IF s = <<>> THEN None
  ELSE IF is_element(d, Head(s)) THEN Head(s)
  ELSE FirstElementIn(d, Tail(s))

first_element_child(d, n) == FirstElementIn(d, d.kids[n])
next_element_sibling(d, n) == FirstElementIn(d, FollowingSiblings(d, n))

\* node.remove_from_parent(): detaches n; n keeps its own subtree.
remove_from_parent(d, n) ==
  IF d.par[n] = None THEN d
  ELSE [d EXCEPT !.kids[d.par[n]] = SeqWithout(@, n), !.par[n] = None]

\* Variant of insert_siblings_before that moves the one node `new' and leaves
\* its following siblings where they are (insert_before).
insert_siblings_before_first_only(d, self, new) ==
  IF d.par[self] = None \/ d.par[new] = None THEN d
  ELSE LET src == d.par[new]
           p == d.par[self]
           d1 == [d EXCEPT !.kids[src] = SeqWithout(@, new)]
           ks == d1.kids[p]
           i == IndexOf(ks, self)
       IN [d1 EXCEPT !.kids[p] = SubSeq(ks, 1, i - 1) \o <<new>> \o SubSeq(ks, i, Len(ks)),
                     !.par[new] = p]

\* self.insert_siblings_before(new): new and every sibling that follows new
\* are moved, in order, in front of self under self's parent.
insert_siblings_before(d, self, new) ==
  IF d.par[self] = None \/ d.par[new] = None THEN d
  ELSE LET src == d.par[new]
           moved == <<new>> \o FollowingSiblings(d, new)
           mset == SeqToSet(moved)
           p == d.par[self]
           kept == SelectSeq(d.kids[src], LAMBDA x : x \notin mset)
           d1 == [d EXCEPT !.kids[src] = kept]
           ks == d1.kids[p]
           i == IndexOf(ks, self)
       IN [d1 EXCEPT !.kids[p] = SubSeq(ks, 1, i - 1) \o moved \o SubSeq(ks, i, Len(ks)),
                     !.par = [x \in NodesOf(d) |-> IF x \in mset THEN p ELSE d.par[x]]]

\* Variant of unwrap that appends the children to the end of the parent's
\* child list instead of putting them where the element was.
unwrap_append(d, n) ==
  LET p == d.par[n]
      ks == d.kids[n]
  IN IF p = None THEN d
     ELSE [d EXCEPT !.kids[p] = SeqWithout(@, n) \o ks,
                    !.kids[n] = <<>>,
                    !.par = [x \in NodesOf(d) |->
                               IF x = n THEN None
                               ELSE IF x \in SeqToSet(ks) THEN p
                               ELSE d.par[x]]]

\* The unwrap idiom of every engine:
\*   if let Some(first_inline) = child.first_child() {
\*       child.insert_siblings_before(&first_inline); }
\*   child.remove_from_parent();
unwrap(d, n) ==
  LET fc == first_child(d, n)
      d1 == IF fc = None THEN d ELSE insert_siblings_before(d, n, fc)
  IN remove_from_parent(d1, n)

remove_all_attrs(d, n) == [d EXCEPT !.attrs[n] = {}]
\* attrs are <<name, value>> pairs.
remove_attrs(d, n, names) == [d EXCEPT !.attrs[n] = {a \in @ : a[1] \notin names}]
retain_attrs(d, n, names) == [d EXCEPT !.attrs[n] = {a \in @ : a[1] \in names}]
has_attr(d, n, key) == \E a \in d.attrs[n] : a[1] = key

RECURSIVE Ancestors(_, _)
Ancestors(d, n) ==
  IF d.par[n] = None THEN {} ELSE {d.par[n]} \cup Ancestors(d, d.par[n])

\* n is part of the document.
Attached(d, n) == n = Root \/ Root \in Ancestors(d, n)

RECURSIVE PreOrder(_, _)
RECURSIVE PreOrderAll(_, _)
\* n and its descendants in document order.
PreOrder(d, n) == <<n>> \o PreOrderAll(d, d.kids[n])
PreOrderAll(d, s) ==
  IF s = <<>> THEN <<>> ELSE PreOrder(d, Head(s)) \o PreOrderAll(d, Tail(s))

Descendants(d, n) == SeqToSet(PreOrderAll(d, d.kids[n]))
Subtree(d, n) == {n} \cup Descendants(d, n)

RECURSIVE ConcatText(_, _)
ConcatText(d, s) ==
  IF s = <<>> THEN <<>>
  ELSE (IF is_text(d, Head(s)) THEN d.text[Head(s)] ELSE <<>>) \o ConcatText(d, Tail(s))

\* node.text(): the text of every text node under n, in document order.
text(d, n) == ConcatText(d, PreOrder(d, n))

\* One level of node.normalize(): runs of adjacent text children become one
\* text node holding their concatenated text; empty text nodes go.
\* st.run is the text node that heads the current run (None outside a run).
RECURSIVE MergeKids(_, _, _)
MergeKids(d, s, st) ==
  IF s = <<>> THEN st
  ELSE LET c == Head(s)
       IN IF ~is_text(d, c)
          THEN MergeKids(d, Tail(s), [st EXCEPT !.kids = Append(@, c), !.run = None])
          ELSE IF st.run # None
          THEN MergeKids(d, Tail(s), [st EXCEPT !.txt[st.run] = @ \o d.text[c],
                                                !.gone = @ \cup {c}])
          ELSE IF d.text[c] = <<>>
          THEN MergeKids(d, Tail(s), [st EXCEPT !.gone = @ \cup {c}])
          ELSE MergeKids(d, Tail(s), [st EXCEPT !.kids = Append(@, c), !.run = c])

normalize_children(d, n) ==
  LET r == MergeKids(d, d.kids[n],
                     [kids |-> <<>>, txt |-> d.text, gone |-> {}, run |-> None])
  IN [d EXCEPT !.kids[n] = r.kids,
               !.text = r.txt,
               !.par = [x \in NodesOf(d) |-> IF x \in r.gone THEN None ELSE d.par[x]]]

RECURSIVE NormalizeEach(_, _)
NormalizeEach(d, s) ==
  IF s = <<>> THEN d
  ELSE NormalizeEach(IF may_have_children(d, Head(s))
                     THEN normalize_children(d, Head(s)) ELSE d, Tail(s))

\* Variant of normalize that merges among the node's own children only.
normalize_own_children(d, n) ==
  IF may_have_children(d, n) THEN normalize_children(d, n) ELSE d

\* node.normalize(): over the whole subtree of n.
normalize(d, n) == NormalizeEach(d, PreOrder(d, n))

\* --------------------------------------------------------------- checkers
\* A NodeChecker is a record [type, names]; `names' is read by the name
\* matchers only.
LocalNamesMatcher(names) == [type |-> "LocalNames", names |-> names]
ExcludeOnlyHttps == [type |-> "OnlyHttps", names |-> {}]
ExcludeNonEmptyDiv == [type |-> "NonEmptyDiv", names |-> {}]
\* A checker of the caller's own that answers true for text nodes: is_match
\* is handed every node, elements or not.
MatchText == [type |-> "Text", names |-> {}]

\* href.starts_with("https://")
StartsWithHttps(v) == v \in {"https://x"}

\* names.contains(&qual_name.local); false for a node without a name.
is_node_name_in(names, d, n) == is_element(d, n) /\ d.name[n] \in names

\* NodeChecker::is_match
is_match(c, d, n) ==
  CASE c.type = "LocalNames" -> is_node_name_in(c.names, d, n)
    [] c.type = "OnlyHttps" ->
         /\ is_element(d, n) /\ d.name[n] = "a"
         /\ \E a \in d.attrs[n] : a[1] = "href" /\ StartsWithHttps(a[2])
    [] c.type = "NonEmptyDiv" ->
         is_element(d, n) /\ d.name[n] = "div" /\ text(d, n) # <<>>
    [] c.type = "Text" -> is_text(d, n)
    [] OTHER -> FALSE

\* Variant of the checker loop in which each checker's answer replaces the
\* answer so far.
AnyMatch_last_wins(cs, d, n) ==
  IF cs = <<>> THEN FALSE ELSE is_match(cs[Len(cs)], d, n)

\* for checker in checkers.iter() { if checker.is_match(node) { return true } } false
RECURSIVE AnyMatch(_, _, _)
AnyMatch(cs, d, n) ==
  IF cs = <<>> THEN FALSE
  ELSE IF is_match(Head(cs), d, n) THEN TRUE
  ELSE AnyMatch(Tail(cs), d, n)

RECURSIVE Evaluated(_, _, _)
\* The checkers on which that loop calls is_match, in order: it returns at
\* the first that matches.
Evaluated(cs, d, n) ==
  IF cs = <<>> THEN <<>>
  ELSE IF is_match(Head(cs), d, n) THEN <<Head(cs)>>
  ELSE <<Head(cs)>> \o Evaluated(Tail(cs), d, n)

should_exclude(p, d, n) == AnyMatch(p.exclude_checkers, d, n)
should_remove(p, d, n) == AnyMatch(p.remove_checkers, d, n)

\* An attribute checker / AttributeRule: [element_scope, attr_names].
AttrMatcher(scope, names) == [element_scope |-> scope, attr_names |-> names]

\* Variant of is_match_attr that skips the element_scope test.
is_match_attr_unscoped(c, d, n, a) == a[1] \in c.attr_names

\* AttrMatcher::is_match_attr
is_match_attr(c, d, n, a) ==
  IF c.element_scope = AnyElement THEN a[1] \in c.attr_names
  ELSE IF ~(is_element(d, n) /\ d.name[n] = c.element_scope) THEN FALSE
  ELSE a[1] \in c.attr_names

RECURSIVE AnyMatchAttr(_, _, _, _)
AnyMatchAttr(cs, d, n, a) ==
  IF cs = <<>> THEN FALSE
  ELSE IF is_match_attr(Head(cs), d, n, a) THEN TRUE
  ELSE AnyMatchAttr(Tail(cs), d, n, a)

RECURSIVE EvaluatedAttr(_, _, _, _)
\* The checkers on which that loop calls is_match_attr, in order.
EvaluatedAttr(cs, d, n, a) ==
  IF cs = <<>> THEN <<>>
  ELSE IF is_match_attr(Head(cs), d, n, a) THEN <<Head(cs)>>
  ELSE <<Head(cs)>> \o EvaluatedAttr(Tail(cs), d, n, a)

should_exclude_attr(p, d, n, a) == AnyMatchAttr(p.attr_exclude_checkers, d, n, a)

\* PluginPolicy::exclude_attrs: the names of the node's attributes that some
\* checker matches (handed to remove_attrs or retain_attrs).
PluginPolicy_exclude_attrs(p, d, n) ==
  {a[1] : a \in {x \in d.attrs[n] : should_exclude_attr(p, d, n, x)}}

\* Policy::exclude_attrs: the attribute names of every rule that is global or
\* scoped to the node's name; None for a node without a name (no call made).
RECURSIVE RuleAttrs(_, _)
RuleAttrs(rules, nm) ==
  IF rules = <<>> THEN {}
  ELSE (IF Head(rules).element_scope = AnyElement \/ Head(rules).element_scope = nm
        THEN Head(rules).attr_names ELSE {}) \cup RuleAttrs(Tail(rules), nm)

\* Variant of Policy::exclude_attrs that treats every rule as global.
Policy_exclude_attrs_unscoped(p, d, n) ==
  UNION {p.attr_exclude_checkers[i].attr_names : i \in 1..Len(p.attr_exclude_checkers)}

Policy_exclude_attrs(p, d, n) == RuleAttrs(p.attr_exclude_checkers, d.name[n])

has_attrs_to_exclude(p) == p.attr_exclude_checkers # <<>>

\* Policy::is_empty / the three is_empty() tests of the plugin engine.
is_empty(p) ==
  /\ p.exclude_checkers = <<>>
  /\ p.remove_checkers = <<>>
  /\ p.attr_exclude_checkers = <<>>

\* Restrictive::should_skip
should_skip(d, n) == is_element(d, n) /\ d.name[n] \in {"html", "head", "body"}

\* The engines: the pre-order cursor loop (directives.rs, policy/core.rs),
\* the same loop over the scoped cursor (dom_helpers.rs), and the recursive
\* one (plugin_policy/core.rs).
Iterative == "iterative"
Scoped == "scoped"
Recursive == "recursive"

\* The names a node's attributes are filtered by.
exclude_attrs(e, p, d, n) ==
  IF e = Recursive THEN PluginPolicy_exclude_attrs(p, d, n)
  ELSE Policy_exclude_attrs(p, d, n)

\* Permissive::sanitize_node_attrs
Permissive_sanitize_node_attrs(e, p, d, n) ==
  IF ~has_attrs_to_exclude(p) THEN d
  ELSE IF ~is_element(d, n) THEN d
  ELSE remove_attrs(d, n, exclude_attrs(e, p, d, n))

\* Variant of Restrictive::sanitize_node_attrs that removes the listed
\* attributes instead of retaining them.
Restrictive_sanitize_node_attrs_removing(e, p, d, n) ==
  IF ~has_attrs_to_exclude(p) THEN remove_all_attrs(d, n)
  ELSE IF ~is_element(d, n) THEN d
  ELSE remove_attrs(d, n, exclude_attrs(e, p, d, n))

\* Restrictive::sanitize_node_attrs
Restrictive_sanitize_node_attrs(e, p, d, n) ==
  IF ~has_attrs_to_exclude(p) THEN remove_all_attrs(d, n)
  ELSE IF ~is_element(d, n) THEN d
  ELSE retain_attrs(d, n, exclude_attrs(e, p, d, n))

sanitize_node_attrs(e, p, d, n) ==
  IF p.directive = Permissive THEN Permissive_sanitize_node_attrs(e, p, d, n)
  ELSE Restrictive_sanitize_node_attrs(e, p, d, n)

\* ----------------------------------------------------------- the cursor
RECURSIVE ClimbToSibling(_, _)
\* let mut parent = node.parent(); while let Some(parent_node) = parent { .. }
ClimbToSibling(d, pn) ==
  IF pn = None THEN None
  ELSE IF next_element_sibling(d, pn) # None THEN next_element_sibling(d, pn)
  ELSE ClimbToSibling(d, d.par[pn])

\* Variant of the cursor that looks at the first element child whatever
\* ignore_child says.
next_child_or_sibling_descend(d, n, ignore_child) ==
  IF first_element_child(d, n) # None THEN first_element_child(d, n)
  ELSE IF next_element_sibling(d, n) # None THEN next_element_sibling(d, n)
  ELSE ClimbToSibling(d, d.par[n])

\* Variant of the cursor that, where the node has no following element
\* sibling, goes back to the first element child of its parent.
next_child_or_sibling_restart(d, n, ignore_child) ==
  IF ~ignore_child /\ first_element_child(d, n) # None THEN first_element_child(d, n)
  ELSE IF next_element_sibling(d, n) # None THEN next_element_sibling(d, n)
  ELSE IF d.par[n] # None THEN first_element_child(d, d.par[n])
  ELSE None

\* Variant of the cursor that never looks at the children.
next_child_or_sibling_skip(d, n, ignore_child) ==
  IF next_element_sibling(d, n) # None THEN next_element_sibling(d, n)
  ELSE ClimbToSibling(d, d.par[n])

\* directives.rs / policy/core.rs: next_child_or_sibling(node, ignore_child)
next_child_or_sibling(d, n, ignore_child) ==
  IF ~ignore_child /\ first_element_child(d, n) # None THEN first_element_child(d, n)
  ELSE IF next_element_sibling(d, n) # None THEN next_element_sibling(d, n)
  ELSE ClimbToSibling(d, d.par[n])

RECURSIVE ClimbToSiblingIn(_, _, _)
ClimbToSiblingIn(d, pn, sc) ==
  IF pn = None THEN None
  ELSE IF pn = sc THEN None
  ELSE IF next_element_sibling(d, pn) # None THEN next_element_sibling(d, pn)
  ELSE ClimbToSiblingIn(d, d.par[pn], sc)

\* dom_helpers.rs: next_child_or_sibling(node, ignore_child, scope)
next_child_or_sibling_scoped(d, n, ignore_child, sc) ==
  IF ~ignore_child /\ first_element_child(d, n) # None THEN first_element_child(d, n)
  ELSE IF next_element_sibling(d, n) # None THEN next_element_sibling(d, n)
  ELSE ClimbToSiblingIn(d, d.par[n], sc)

\* The cursor the engine in use calls.
Cursor(e, d, n, ignore_child, sc) ==
  IF e = Scoped THEN next_child_or_sibling_scoped(d, n, ignore_child, sc)
  ELSE next_child_or_sibling(d, n, ignore_child)

\* ------------------------------------------------------------- the state
VARIABLES
  dom,        \* the tree being sanitized
  policy,     \* the built policy (never written after Init)
  engine,     \* which engine runs it
  scope,      \* the node sanitize_node was called on
  pc,         \* "start" | "iter" | "rec" | "done"
  next_node,  \* the cursor of the pre-order loop (None: the loop ends)
  stack,      \* the frames of the recursive engine, innermost last
  pass,       \* 1: the first call; 2: the same call made again
  dom0,       \* the tree before the first call
  dom1,       \* the tree after the first call
  log,        \* the decisions of the current call, in order
  call,       \* a call of one of the library's pure functions: [fn, ..arguments]
  ret,        \* what that call returned (NoRet before it ran)
  parked      \* the sanitize call of a second thread while it is not running:
              \* its own tree and position (NoThread when there is one thread)

vars == <<dom, policy, engine, scope, pc, next_node, stack, pass, dom0, dom1, log,
          call, ret, parked>>

\* The variables of a sanitize call, and those of a pure-function call.
svars == <<dom, policy, engine, scope, pc, next_node, stack, pass, dom0, dom1, log>>
fvars == <<call, ret>>

NoCall == [fn |-> "none"]
NoRet == [kind |-> "none"]
NoThread == [pc |-> "none"]

\* ---------------------------------------------------------------- inputs
RECURSIVE SetToSortedSeq(_)
SetToSortedSeq(S) ==
  IF S = {} THEN <<>>
  ELSE LET m == CHOOSE x \in S : \A y \in S : x <= y
       IN <<m>> \o SetToSortedSeq(S \ {m})

\* What the test pages put on the elements.
AttrsOf(nm, href) ==
  CASE nm = "a" -> {<<"href", href>>, <<"role", "link">>}
    [] nm = "div" -> {<<"href", "/div">>, <<"id", "d">>}
    [] nm = "p" -> {<<"role", "paragraph">>}
    [] nm \in {"html", "head", "body"} -> {<<"role", "doc">>}
    [] OTHER -> {}

\* A document: #document > html > (head, body), and under body the nodes of
\* `extra', whose parent is par[n], child order kids[n] and label lab[n].
MakeDoc(extra, par, kids, lab, href) ==
  LET nodes == (0..3) \cup extra
      nameOf(n) == CASE n = 0 -> "#document" [] n = 1 -> "html" [] n = 2 -> "head"
                     [] n = 3 -> "body" [] OTHER -> lab[n]
      kindOf(n) == IF n = 0 THEN "doc" ELSE IF nameOf(n) = "#text" THEN "text" ELSE "elem"
  IN [kind |-> [n \in nodes |-> kindOf(n)],
      name |-> [n \in nodes |-> nameOf(n)],
      par |-> [n \in nodes |-> CASE n = 0 -> None [] n = 1 -> 0 [] n \in {2, 3} -> 1
                                 [] OTHER -> par[n]],
      kids |-> [n \in nodes |-> CASE n = 0 -> <<1>> [] n = 1 -> <<2, 3>> [] n = 2 -> <<>>
                                  [] OTHER -> kids[n]],
      attrs |-> [n \in nodes |-> AttrsOf(nameOf(n), href)],
      text |-> [n \in nodes |-> IF nameOf(n) = "#text" THEN <<n>> ELSE <<>>]]

Labels == {"div", "a", "#text"}
ExtraNodes == 4..(3 + MaxExtra)

RECURSIVE Spine(_, _)
Spine(pv, i) == IF i <= 3 THEN {3} ELSE {i} \cup Spine(pv, pv[i])

\* Every tree shape over the extra nodes, numbered in document order.
ParentVectors ==
  {pv \in {q \in [ExtraNodes -> 3..(3 + MaxExtra)] : \A i \in ExtraNodes : q[i] < i} :
     \A i \in ExtraNodes : i > 4 => pv[i] \in Spine(pv, i - 1)}

SmallDocs ==
  {MakeDoc(ExtraNodes, pv,
           [n \in {3} \cup ExtraNodes |-> SetToSortedSeq({i \in ExtraNodes : pv[i] = n})],
           lab, "https://x") :
     <<pv, lab>> \in {x \in ParentVectors \X [ExtraNodes -> Labels] :
                        \A i \in ExtraNodes : x[1][i] > 3 => x[2][x[1][i]] # "#text"}}

\* body > (before, div > (c1 .. cMaxKids), after): node 4 is the div, 5 and 6
\* its siblings, 7.. its children; each of those is an <a> or a text node.
WideNodes == 4..(6 + MaxKids)
WideKids == SetToSortedSeq(7..(6 + MaxKids))
WideDocs ==
  {MakeDoc(WideNodes,
           [n \in WideNodes |-> IF n <= 6 THEN 3 ELSE 4],
           [n \in {3} \cup WideNodes |-> CASE n = 3 -> <<5, 4, 6>> [] n = 4 -> WideKids
                                            [] OTHER -> <<>>],
           [n \in WideNodes |-> IF n = 4 THEN "div" ELSE lab[n]], "/first") :
     lab \in [WideNodes \ {4} -> {"a", "#text"}]}

\* body > three blocks <div><p role=..><a href=.. role=..>text</a></p></div>:
\* the divs are 4, 7, 10, the paragraphs 5, 8, 11, the links 6, 9, 12 and the
\* link texts 13, 14, 15; html, head and body carry no attribute.
ParagraphNodes == 4..15
ParagraphBlocks ==
  MakeDoc(ParagraphNodes,
          [n \in ParagraphNodes |->
             CASE n \in {4, 7, 10} -> 3
               [] n \in {5, 6, 8, 9, 11, 12} -> n - 1
               [] OTHER -> 6 + 3 * (n - 13)],
          [n \in {3} \cup ParagraphNodes |->
             CASE n = 3 -> <<4, 7, 10>>
               [] n \in {4, 5, 7, 8, 10, 11} -> <<n + 1>>
               [] n \in {6, 9, 12} -> <<13 + ((n - 6) \div 3)>>
               [] OTHER -> <<>>],
          [n \in ParagraphNodes |->
             CASE n \in {4, 7, 10} -> "div"
               [] n \in {5, 8, 11} -> "p"
               [] n \in {6, 9, 12} -> "a"
               [] OTHER -> "#text"],
          "/first")
ParagraphDoc ==
  [ParagraphBlocks EXCEPT !.attrs = [n \in NodesOf(ParagraphBlocks) |->
                                       IF n <= 3 THEN {} ELSE ParagraphBlocks.attrs[n]]]

\* body > div > (a href="https://x", text): a document on which every checker
\* of the tests matches some node.
LinkDoc ==
  MakeDoc(4..6, [n \in 4..6 |-> IF n = 4 THEN 3 ELSE 4],
          [n \in 3..6 |-> CASE n = 3 -> <<4>> [] n = 4 -> <<5, 6>> [] OTHER -> <<>>],
          [n \in 4..6 |-> CASE n = 4 -> "div" [] n = 5 -> "a" [] OTHER -> "#text"],
          "https://x")
CheckerDocs == {ParagraphDoc, LinkDoc}

Docs == SmallDocs \cup WideDocs \cup {ParagraphDoc}

ExcludeChoices ==
  {<<>>, <<LocalNamesMatcher({"div"})>>, <<LocalNamesMatcher({"a"})>>,
   <<LocalNamesMatcher({"div"}), LocalNamesMatcher({"a"})>>,
   <<ExcludeOnlyHttps>>, <<ExcludeNonEmptyDiv>>}
RemoveChoices ==
  {<<>>, <<LocalNamesMatcher({"div"})>>, <<LocalNamesMatcher({"body"})>>}
AttrChoices ==
  {<<>>, <<AttrMatcher(AnyElement, {"role"}), AttrMatcher("a", {"href"})>>}

\* DenyAllPolicy::builder().exclude_elements(&["p", "a"]).exclude_attrs(&["role"])
\*   .exclude_element_attrs("a", &["href"]).build()
ParagraphAttrsPolicy ==
  [directive |-> Restrictive,
   exclude_checkers |-> <<LocalNamesMatcher({"p", "a"})>>,
   remove_checkers |-> <<>>,
   attr_exclude_checkers |-> <<AttrMatcher(AnyElement, {"role"}), AttrMatcher("a", {"href"})>>]

Policies ==
  [directive : {Permissive, Restrictive},
   exclude_checkers : ExcludeChoices,
   remove_checkers : RemoveChoices,
   attr_exclude_checkers : AttrChoices]
  \cup {ParagraphAttrsPolicy}
  \cup {[directive |-> dir, exclude_checkers |-> <<MatchText>>, remove_checkers |-> <<>>,
          attr_exclude_checkers |-> <<>>] : dir \in {Permissive, Restrictive}}

Engines == {Iterative, Scoped, Recursive}

\* sanitize_document (the root) or sanitize_node on the element numbered 4.
Scopes(d) == {Root} \cup {n \in {4} : n \in NodesOf(d) /\ is_element(d, n)}

Init ==
  /\ dom \in Docs
  /\ policy \in Policies
  /\ engine \in Engines
  /\ scope \in Scopes(dom)
  /\ pc = "start"
  /\ next_node = None
  /\ stack = <<>>
  /\ pass = 1
  /\ dom0 = dom
  /\ dom1 = dom
  /\ log = <<>>
  /\ call = NoCall
  /\ ret = NoRet
  /\ parked = NoThread

\* --------------------------------------------------------------- actions
Entry(n, op) == [node |-> n, op |-> op]

\* Variant of Keeps with the two directives' tests exchanged.
Keeps_Swapped(p, d, n) ==
  IF p.directive = Restrictive THEN ~should_exclude(p, d, n)
  ELSE should_skip(d, n) \/ should_exclude(p, d, n)

\* The keep test of the two directives:
\*   Permissive:  !policy.should_exclude(&child)
\*   Restrictive: Self::should_skip(&child) || policy.should_exclude(&child)
Keeps(p, d, n) ==
  IF p.directive = Permissive THEN ~should_exclude(p, d, n)
  ELSE should_skip(d, n) \/ should_exclude(p, d, n)

\* Variant of IterDecision that tests the Exclude rule before the Remove rule.
IterDecision_ExcludeFirst(p, d, n) ==
  IF ~Keeps(p, d, n) THEN "unwrap"
  ELSE IF should_remove(p, d, n) THEN "remove"
  ELSE "keep"

\* What one turn of the pre-order loop does with `child':
\*   if policy.should_remove(&child) { .. remove_from_parent(); continue; }
\*   if <keep test> { sanitize_node_attrs(..); continue; }
\*   <unwrap>
IterDecision(p, d, n) ==
  IF should_remove(p, d, n) THEN "remove"
  ELSE IF Keeps(p, d, n) THEN "keep"
  ELSE "unwrap"

Frame(n, c) == [node |-> n, child |-> c, next |-> None, phase |-> "pre"]

\* Variant of SanitizeNode in which the call takes the Remove rules out of the
\* policy it was given.
SanitizeNode_draining ==
  /\ pc = "start"
  /\ IF policy.directive = Permissive /\ is_empty(policy)
     THEN /\ dom' = normalize(dom, scope)
          /\ pc' = "done"
          /\ UNCHANGED <<next_node, stack>>
     ELSE IF engine = Recursive
     THEN /\ stack' = <<Frame(scope, first_child(dom, scope))>>
          /\ pc' = "rec"
          /\ UNCHANGED <<dom, next_node>>
     ELSE /\ next_node' = Cursor(engine, dom, scope, FALSE, scope)
          /\ pc' = "iter"
          /\ UNCHANGED <<dom, stack>>
  /\ policy' = [policy EXCEPT !.remove_checkers = <<>>]
  /\ UNCHANGED <<engine, scope, pass, dom0, dom1, log>>
  /\ UNCHANGED <<fvars, parked>>

\* policy.sanitize_node(node): T::sanitize_node starts.  A Permissive policy
\* without rules returns at once, and the wrapper's node.normalize() runs.
SanitizeNode ==
  /\ pc = "start"
  /\ IF policy.directive = Permissive /\ is_empty(policy)
     THEN /\ dom' = normalize(dom, scope)
          /\ pc' = "done"
          /\ UNCHANGED <<next_node, stack>>
     ELSE IF engine = Recursive
     THEN /\ stack' = <<Frame(scope, first_child(dom, scope))>>
          /\ pc' = "rec"
          /\ UNCHANGED <<dom, next_node>>
     ELSE /\ next_node' = Cursor(engine, dom, scope, FALSE, scope)
          /\ pc' = "iter"
          /\ UNCHANGED <<dom, stack>>
  /\ UNCHANGED <<policy, engine, scope, pass, dom0, dom1, log>>
  /\ UNCHANGED <<fvars, parked>>

\* Variant of IterUnwrap that takes the cursor after the node was unwrapped.
IterUnwrap_CursorAfter ==
  /\ pc = "iter" /\ next_node # None
  /\ IterDecision(policy, dom, next_node) = "unwrap"
  /\ next_node' = Cursor(engine, unwrap(dom, next_node), next_node, FALSE, scope)
  /\ dom' = unwrap(dom, next_node)
  /\ log' = Append(log, Entry(next_node, "unwrap"))
  /\ UNCHANGED <<policy, engine, scope, pc, stack, pass, dom0, dom1>>
  /\ UNCHANGED <<fvars, parked>>

\* One turn of `while let Some(child) = next_node': the Remove rule.
IterRemove ==
  /\ pc = "iter" /\ next_node # None
  /\ IterDecision(policy, dom, next_node) = "remove"
  /\ next_node' = Cursor(engine, dom, next_node, TRUE, scope)
  /\ dom' = remove_from_parent(dom, next_node)
  /\ log' = Append(log, Entry(next_node, "remove"))
  /\ UNCHANGED <<policy, engine, scope, pc, stack, pass, dom0, dom1>>
  /\ UNCHANGED <<fvars, parked>>

\* ... the node is kept and its attributes are filtered.
IterKeep ==
  /\ pc = "iter" /\ next_node # None
  /\ IterDecision(policy, dom, next_node) = "keep"
  /\ next_node' = Cursor(engine, dom, next_node, FALSE, scope)
  /\ dom' = sanitize_node_attrs(engine, policy, dom, next_node)
  /\ log' = Append(log, Entry(next_node, "keep"))
  /\ UNCHANGED <<policy, engine, scope, pc, stack, pass, dom0, dom1>>
  /\ UNCHANGED <<fvars, parked>>

\* ... the node is unwrapped; the cursor was taken before.
IterUnwrap ==
  /\ pc = "iter" /\ next_node # None
  /\ IterDecision(policy, dom, next_node) = "unwrap"
  /\ next_node' = Cursor(engine, dom, next_node, FALSE, scope)
  /\ dom' = unwrap(dom, next_node)
  /\ log' = Append(log, Entry(next_node, "unwrap"))
  /\ UNCHANGED <<policy, engine, scope, pc, stack, pass, dom0, dom1>>
  /\ UNCHANGED <<fvars, parked>>

\* The loop ends; the wrapper's node.normalize() runs and the call returns.
IterReturn ==
  /\ pc = "iter" /\ next_node = None
  /\ dom' = normalize(dom, scope)
  /\ pc' = "done"
  /\ UNCHANGED <<policy, engine, scope, next_node, stack, pass, dom0, dom1, log>>
  /\ UNCHANGED <<fvars, parked>>

Top == stack[Len(stack)]
SetTop(f) == [stack EXCEPT ![Len(stack)] = f]

\* The recursive engine after the recursion into child: unwrap or keep.
\*   Permissive:  if should_exclude { unwrap }; sanitize_node_attrs(child)
\*   Restrictive: if !is_element { continue }
\*                if should_skip || should_exclude { sanitize_node_attrs; continue }
\*                unwrap
RecDecisionOp(p, d, c) ==
  IF p.directive = Permissive
  THEN IF should_exclude(p, d, c) THEN "unwrap" ELSE "keep"
  ELSE IF ~is_element(d, c) THEN "pass"
       ELSE IF Keeps(p, d, c) THEN "keep" ELSE "unwrap"

RecDecisionDom(p, d, c) ==
  IF p.directive = Permissive
  THEN sanitize_node_attrs(Recursive, p,
                           IF should_exclude(p, d, c) THEN unwrap(d, c) ELSE d, c)
  ELSE IF ~is_element(d, c) THEN d
       ELSE IF Keeps(p, d, c) THEN sanitize_node_attrs(Recursive, p, d, c)
       ELSE unwrap(d, c)

\* let next_node = child_node.next_sibling(); the Remove rule.
RecRemove ==
  /\ pc = "rec" /\ Top.phase = "pre" /\ Top.child # None
  /\ should_remove(policy, dom, Top.child)
  /\ dom' = remove_from_parent(dom, Top.child)
  /\ stack' = SetTop([Top EXCEPT !.child = next_sibling(dom, Top.child)])
  /\ log' = Append(log, Entry(Top.child, "remove"))
  /\ UNCHANGED <<policy, engine, scope, pc, next_node, pass, dom0, dom1>>
  /\ UNCHANGED <<fvars, parked>>

\* if child_node.may_have_children() { sanitize_node(policy, child_node) }
RecDescend ==
  /\ pc = "rec" /\ Top.phase = "pre" /\ Top.child # None
  /\ ~should_remove(policy, dom, Top.child)
  /\ may_have_children(dom, Top.child)
  /\ stack' = Append(SetTop([Top EXCEPT !.next = next_sibling(dom, Top.child),
                                        !.phase = "post"]),
                     Frame(Top.child, first_child(dom, Top.child)))
  /\ UNCHANGED <<dom, policy, engine, scope, pc, next_node, pass, dom0, dom1, log>>
  /\ UNCHANGED <<fvars, parked>>

\* A child that cannot have children goes straight to the decision.
RecLeaf ==
  /\ pc = "rec" /\ Top.phase = "pre" /\ Top.child # None
  /\ ~should_remove(policy, dom, Top.child)
  /\ ~may_have_children(dom, Top.child)
  /\ dom' = RecDecisionDom(policy, dom, Top.child)
  /\ stack' = SetTop([Top EXCEPT !.child = next_sibling(dom, Top.child)])
  /\ log' = Append(log, Entry(Top.child, RecDecisionOp(policy, dom, Top.child)))
  /\ UNCHANGED <<policy, engine, scope, pc, next_node, pass, dom0, dom1>>
  /\ UNCHANGED <<fvars, parked>>

\* Back from the recursion into child: its decision; child = next_node.
RecDecide ==
  /\ pc = "rec" /\ Top.phase = "post"
  /\ dom' = RecDecisionDom(policy, dom, Top.child)
  /\ stack' = SetTop([Top EXCEPT !.child = Top.next, !.next = None, !.phase = "pre"])
  /\ log' = Append(log, Entry(Top.child, RecDecisionOp(policy, dom, Top.child)))
  /\ UNCHANGED <<policy, engine, scope, pc, next_node, pass, dom0, dom1>>
  /\ UNCHANGED <<fvars, parked>>

\* `while let Some(..) = child' ends.  The Restrictive engine recurses through
\* policy.sanitize_node, which normalizes at every level; the Permissive one
\* through Self::sanitize_node, so only the outermost call normalizes.
RecReturn ==
  /\ pc = "rec" /\ Top.phase = "pre" /\ Top.child = None
  /\ dom' = IF policy.directive = Restrictive \/ Len(stack) = 1
            THEN normalize(dom, Top.node) ELSE dom
  /\ stack' = SubSeq(stack, 1, Len(stack) - 1)
  /\ pc' = IF Len(stack) = 1 THEN "done" ELSE "rec"
  /\ UNCHANGED <<policy, engine, scope, next_node, pass, dom0, dom1, log>>
  /\ UNCHANGED <<fvars, parked>>

\* The caller sanitizes the same node with the same policy once more.
SanitizeAgain ==
  /\ pc = "done" /\ pass = 1
  /\ pass' = 2
  /\ dom1' = dom
  /\ log' = <<>>
  /\ pc' = "start"
  /\ UNCHANGED <<dom, policy, engine, scope, next_node, stack, dom0>>
  /\ UNCHANGED <<fvars, parked>>

Next ==
  \/ SanitizeNode
  \/ IterRemove
  \/ IterKeep
  \/ IterUnwrap
  \/ IterReturn
  \/ RecRemove
  \/ RecDescend
  \/ RecLeaf
  \/ RecDecide
  \/ RecReturn
  \/ SanitizeAgain

Spec == Init /\ [][Next]_vars

\* A call that has started goes on: the library has no cancellation and no
\* timeout, and the caller waits for the call to return.
\* Each step that is due is taken.  For the three steps that end in
\* node.normalize() the condition is written on the step's position alone
\* (the same steps: no other action leaves `start', ends the loop or pops a
\* frame).
Fairness ==
  /\ WF_vars(IterRemove) /\ WF_vars(IterKeep) /\ WF_vars(IterUnwrap)
  /\ WF_vars(RecRemove) /\ WF_vars(RecDescend) /\ WF_vars(RecLeaf) /\ WF_vars(RecDecide)
  /\ WF_vars(SanitizeAgain)
  /\ WF_pc(pc = "start" /\ pc' \in {"iter", "rec", "done"})
  /\ WF_pc(pc = "iter" /\ next_node = None /\ pc' = "done")
  /\ WF_stack(pc = "rec" /\ Top.phase = "pre" /\ Top.child = None
                /\ stack' = SubSeq(stack, 1, Len(stack) - 1))

\* The calls whose termination is followed: the wide documents and the
\* paragraphs page, every policy, engine and scope.
InitLive == Init /\ dom \in WideDocs \cup {ParagraphDoc}

SpecLive == InitLive /\ [][Next]_vars /\ Fairness

\* The nodes on which the step that is due evaluates a check or reads a link,
\* each with the tree as it is when that happens.  The Permissive recursive
\* engine calls sanitize_node_attrs(child_node) after the exclude step,
\* whatever that step did.
Evaluations ==
  IF pc = "start" THEN {<<dom, scope>>}
  ELSE IF pc = "iter" /\ next_node # None THEN {<<dom, next_node>>}
  ELSE IF pc = "rec" /\ Top.child = None THEN {<<dom, Top.node>>}
  ELSE IF pc = "rec"
  THEN LET c == Top.child
           decides == \/ Top.phase = "post"
                      \/ ~should_remove(policy, dom, c) /\ ~may_have_children(dom, c)
       IN {<<dom, c>>} \cup
          (IF decides /\ policy.directive = Permissive /\ has_attrs_to_exclude(policy)
           THEN {<<IF should_exclude(policy, dom, c) THEN unwrap(dom, c) ELSE dom, c>>}
           ELSE {})
  ELSE {}

\* ------------------------------------------------ the call as a function
RECURSIVE SanitizeLoop(_, _, _, _, _)
\* The pre-order loop run to its end from the cursor n: every turn is the
\* step IterRemove, IterKeep or IterUnwrap takes.
SanitizeLoop(e, p, d, n, sc) ==
  IF n = None THEN d
  ELSE LET op == IterDecision(p, d, n)
       IN SanitizeLoop(e, p,
                       CASE op = "remove" -> remove_from_parent(d, n)
                         [] op = "keep" -> sanitize_node_attrs(e, p, d, n)
                         [] OTHER -> unwrap(d, n),
                       Cursor(e, d, n, op = "remove", sc), sc)

RECURSIVE SanitizeChildren(_, _, _)
\* The recursive engine's loop over the children of a node from `child' on
\* (RecRemove, RecDescend, RecLeaf, RecDecide), and at the end of a nested
\* Restrictive call the wrapper's normalize (RecReturn).
SanitizeChildren(p, d, child) ==
  IF child = None THEN d
  ELSE LET nx == next_sibling(d, child)
       IN IF should_remove(p, d, child)
          THEN SanitizeChildren(p, remove_from_parent(d, child), nx)
          ELSE LET inner == IF may_have_children(d, child)
                            THEN SanitizeChildren(p, d, first_child(d, child))
                            ELSE d
                   after == IF may_have_children(d, child) /\ p.directive = Restrictive
                            THEN normalize(inner, child) ELSE inner
               IN SanitizeChildren(p, RecDecisionDom(p, after, child), nx)

\* policy.sanitize_node(node): T::sanitize_node(self, node); node.normalize()
sanitize_node(e, p, d, sc) ==
  IF p.directive = Permissive /\ is_empty(p) THEN normalize(d, sc)
  ELSE IF e = Recursive THEN normalize(SanitizeChildren(p, d, first_child(d, sc)), sc)
  ELSE normalize(SanitizeLoop(e, p, d, Cursor(e, d, sc, FALSE, sc), sc), sc)

\* ------------------------------------------- two threads, one policy
\* let shared_policy = Arc::new(policy); each spawned thread parses its own
\* document and calls policy.sanitize_document(&doc).  One thread runs at a
\* time; the position of the other is kept in `parked'.
ThisThread ==
  [dom |-> dom, engine |-> engine, scope |-> scope, pc |-> pc, next_node |-> next_node,
   stack |-> stack, pass |-> pass, dom0 |-> dom0, dom1 |-> dom1, log |-> log]

NewThread(e, d) ==
  [dom |-> d, engine |-> e, scope |-> Root, pc |-> "start", next_node |-> None,
   stack |-> <<>>, pass |-> 1, dom0 |-> d, dom1 |-> d, log |-> <<>>]

SharedEngines == {Iterative, Recursive}

InitShared ==
  /\ policy \in Policies
  /\ dom \in CheckerDocs
  /\ engine \in SharedEngines
  /\ scope = Root
  /\ pc = "start"
  /\ next_node = None
  /\ stack = <<>>
  /\ pass = 1
  /\ dom0 = dom
  /\ dom1 = dom
  /\ log = <<>>
  /\ call = NoCall
  /\ ret = NoRet
  /\ parked \in {NewThread(e, d) : e \in SharedEngines, d \in CheckerDocs}

\* The scheduler takes the running thread off the processor between two of
\* its steps and runs the other one.  The policy behind the Arc is the same
\* for both.
Switch ==
  /\ parked # NoThread
  /\ parked' = ThisThread
  /\ dom' = parked.dom
  /\ engine' = parked.engine
  /\ scope' = parked.scope
  /\ pc' = parked.pc
  /\ next_node' = parked.next_node
  /\ stack' = parked.stack
  /\ pass' = parked.pass
  /\ dom0' = parked.dom0
  /\ dom1' = parked.dom1
  /\ log' = parked.log
  /\ UNCHANGED <<policy, fvars>>

NextShared ==
  \/ SanitizeNode
  \/ IterRemove
  \/ IterKeep
  \/ IterUnwrap
  \/ IterReturn
  \/ RecRemove
  \/ RecDescend
  \/ RecLeaf
  \/ RecDecide
  \/ RecReturn
  \/ Switch

SpecShared == InitShared /\ [][NextShared]_vars

\* ------------------------------------------------------------ properties
\* The first call has returned / the repeated call has returned.
Done1 == pc = "done" /\ pass = 1
Done2 == pc = "done" /\ pass = 2

\* The steps of a call, taken one by one, end where the function says.
StepsAgree ==
  /\ Done1 => dom = sanitize_node(engine, policy, dom0, scope)
  /\ Done2 => dom = sanitize_node(engine, policy, dom1, scope)

Live(d) == {n \in NodesOf(d) : Attached(d, n)}

\* The document as a reader sees it: the attached nodes with their names,
\* child lists, attributes and text.
View(d) ==
  [n \in Live(d) |-> <<d.name[n], d.kids[n], d.attrs[n], d.text[n]>>]

\* The nodes a Remove rule detached in the current call, with their subtrees
\* as they were in the input.
RemovedRoots == {log[i].node : i \in {j \in 1..Len(log) : log[j].op = "remove"}}
Unwrapped == {log[i].node : i \in {j \in 1..Len(log) : log[j].op = "unwrap"}}
RemovedSubtrees == UNION {Subtree(dom0, r) : r \in RemovedRoots}

\* Policies made of name matchers only (Policy::exclude_elements,
\* remove_elements).
NameBased(p) ==
  /\ \A i \in 1..Len(p.exclude_checkers) : p.exclude_checkers[i].type = "LocalNames"
  /\ \A i \in 1..Len(p.remove_checkers) : p.remove_checkers[i].type = "LocalNames"
ExcludeNames(p) == UNION {p.exclude_checkers[i].names : i \in 1..Len(p.exclude_checkers)}
RemoveNames(p) == UNION {p.remove_checkers[i].names : i \in 1..Len(p.remove_checkers)}

\* C1: sanitize(P, sanitize(P, T)) = sanitize(P, T) for every tree and every
\* policy, checkers that read attributes or content included: the repeated
\* call leaves the document as the first call left it.
C1_Idempotent == Done2 => View(dom) = View(dom1)

\* C2: under Restrictive, html, head and body are still in the document when
\* sanitize returns, whatever the rules are (Remove rules included).
C2_RootsPresent ==
  (Done1 /\ policy.directive = Restrictive) =>
    \A n \in Live(dom0) : should_skip(dom0, n) => Attached(dom, n)

\* The child whose Remove rule is being tested.
Deciding(n) ==
  \/ pc = "iter" /\ next_node = n
  \/ pc = "rec" /\ Top.phase = "pre" /\ Top.child = n

\* C3: under both directives a node that matches a Remove rule and an Exclude
\* rule is detached together with its children: the step that decides it
\* leaves it without parent and with its child list as it was, every child
\* still pointing to it.
C3_RemoveBeforeExclude ==
  [][\A n \in NodesOf(dom) :
       (Deciding(n) /\ should_remove(policy, dom, n) /\ should_exclude(policy, dom, n))
         => /\ dom'.par[n] = None
            /\ dom'.kids[n] = dom.kids[n]
            /\ \A c \in SeqToSet(dom.kids[n]) : dom'.par[c] = n /\ ~Attached(dom', c)]_vars

C3_Witness ==
  /\ policy.exclude_checkers = <<LocalNamesMatcher({"div"})>>
  /\ policy.remove_checkers = <<LocalNamesMatcher({"div"})>>
  /\ \E r \in RemovedRoots :
       /\ dom0.name[r] = "div"
       /\ dom.par[r] = None
       /\ dom.kids[r] # <<>>
       /\ dom.kids[r] = dom0.kids[r]

\* s with its element x replaced by the sequence r.
Splice(s, x, r) ==
  LET i == IndexOf(s, x) IN SubSeq(s, 1, i - 1) \o r \o SubSeq(s, i + 1, Len(s))

\* Every node of set S is in the document when the call returns.
AllKept(S) == \A c \in S : Attached(dom, c)

RECURSIVE Flat(_, _)
\* The child list s read as elements and pieces of text: a text node stands
\* for the text it holds, so that merged text nodes read as before the merge.
Flat(d, s) ==
  IF s = <<>> THEN <<>>
  ELSE (IF is_text(d, Head(s)) THEN d.text[Head(s)] ELSE <<Head(s)>>) \o Flat(d, Tail(s))

\* C4: when an element x with children [c1, c2, c3] between siblings before
\* and after is unwrapped, and its children and siblings are kept, the
\* parent's child list reads [before, c1, c2, c3, after]; when only the text
\* among them was merged into a neighbouring text node, the elements and the
\* pieces of text still read in that order (a text node that a rule itself
\* took out was not kept).
C4_UnwrapOrder ==
  Done1 =>
    \A x \in {u \in Unwrapped : is_element(dom0, u)} :
      LET p == dom0.par[x]
          around == (SeqToSet(dom0.kids[p]) \ {x}) \cup SeqToSet(dom0.kids[x])
          expected == Splice(dom0.kids[p], x, dom0.kids[x])
      IN (p # None /\ Attached(dom, p)) =>
           /\ AllKept(around) => dom.kids[p] = expected
           /\ (AllKept({c \in around : is_element(dom0, c)})
               /\ around \cap (Unwrapped \cup RemovedRoots) = {}) =>
                Flat(dom, dom.kids[p]) = Flat(dom0, expected)

C4_Witness ==
  /\ Done1
  /\ 4 \in Unwrapped
  /\ dom0.kids[3] = <<5, 4, 6>>
  /\ Len(dom0.kids[4]) = 3
  /\ \E c \in SeqToSet(dom0.kids[4]) : is_text(dom0, c)
  /\ AllKept({5, 6} \cup SeqToSet(dom0.kids[4]))
  /\ dom.kids[3] = <<5>> \o dom0.kids[4] \o <<6>>

\* C5: sanitize_node(n) never removes, unwraps or strips attributes from n,
\* from an ancestor of n or from a node outside n's subtree: such a node keeps
\* its parent and its attributes throughout the call.
C5_BoundedToScope ==
  \A n \in NodesOf(dom0) \ Descendants(dom0, scope) :
    dom.par[n] = dom0.par[n] /\ dom.attrs[n] = dom0.attrs[n]

\* C6: a Permissive policy without rules leaves the tree as it was, adjacent
\* text siblings included, and visits no node.
C6_EmptyPermissiveNoOp ==
  (Done1 /\ policy.directive = Permissive /\ is_empty(policy))
    => View(dom) = View(dom0) /\ log = <<>>

Protected == {"html", "head", "body"}

\* C8: under Restrictive with a name-based policy, an element is kept only if
\* it is html, head or body or its name is in the exclude list, and every
\* other element is unwrapped; after sanitize_document every element left is
\* one of those, and every input element with a listed name outside the
\* removed subtrees is still in the document.
C8_RestrictiveKeeps ==
  (Done1 /\ scope = Root /\ policy.directive = Restrictive /\ NameBased(policy)) =>
    /\ \A n \in Live(dom) :
         is_element(dom, n) => dom.name[n] \in Protected \cup ExcludeNames(policy)
    /\ \A n \in Live(dom0) :
         (/\ is_element(dom0, n)
          /\ dom0.name[n] \in ExcludeNames(policy)
          /\ n \notin RemovedSubtrees) => Attached(dom, n)
    /\ \A i \in 1..Len(log) :
         /\ log[i].op = "keep" =>
              dom0.name[log[i].node] \in Protected \cup ExcludeNames(policy)
         /\ log[i].op = "unwrap" =>
              dom0.name[log[i].node] \notin Protected \cup ExcludeNames(policy)

C8_Witness ==
  /\ Done1 /\ scope = Root /\ policy.directive = Restrictive
  /\ NameBased(policy)
  /\ \E n \in Live(dom) : dom.name[n] \in ExcludeNames(policy)
  /\ \E x \in Unwrapped : is_element(dom0, x) /\ dom0.kids[x] # <<>>

RECURSIVE NearestSurvivor(_)
\* The nearest ancestor of n in the input that is in the document now.
NearestSurvivor(n) ==
  LET p == dom0.par[n] IN
    IF p = None \/ Attached(dom, p) THEN p ELSE NearestSurvivor(p)

\* C9: under Permissive with a name-based policy, after sanitize_document no
\* element with a name in the exclude list is left, and every input element
\* that matches neither list and is outside the removed subtrees is in the
\* document, a child of its nearest surviving ancestor.
C9_PermissiveUnwraps ==
  (Done1 /\ scope = Root /\ policy.directive = Permissive /\ NameBased(policy)) =>
    /\ \A n \in Live(dom) :
         is_element(dom, n) => dom.name[n] \notin ExcludeNames(policy)
    /\ \A n \in Live(dom0) :
         (/\ is_element(dom0, n)
          /\ dom0.name[n] \notin ExcludeNames(policy) \cup RemoveNames(policy)
          /\ n \notin RemovedSubtrees)
         => Attached(dom, n) /\ dom.par[n] = NearestSurvivor(n)

C9_Witness ==
  /\ Done1 /\ scope = Root /\ policy.directive = Permissive
  /\ NameBased(policy)
  /\ \E x \in Unwrapped :
       /\ dom0.name[x] \in ExcludeNames(policy)
       /\ \E c \in SeqToSet(dom0.kids[x]) :
            /\ is_element(dom0, c)
            /\ Attached(dom, c)
            /\ dom.par[c] = NearestSurvivor(c)
            /\ dom.par[c] # dom0.par[c]

\* The names of the attribute rules that are global or scoped to name nm.
AllowedAttrNames(p, nm) ==
  UNION {p.attr_exclude_checkers[i].attr_names :
           i \in {j \in 1..Len(p.attr_exclude_checkers) :
                    p.attr_exclude_checkers[j].element_scope \in {AnyElement, nm}}}

\* C10: under Restrictive every kept element, html, head and body included,
\* ends with exactly those of its attributes that match an attribute rule
\* that is global or scoped to its name; with no attribute rules it ends with
\* none.
C10_RestrictiveAttrs ==
  (Done1 /\ scope = Root /\ policy.directive = Restrictive) =>
    \A n \in Live(dom) :
      is_element(dom, n) =>
        /\ dom.attrs[n] =
             {a \in dom0.attrs[n] : a[1] \in AllowedAttrNames(policy, dom0.name[n])}
        /\ (policy.attr_exclude_checkers = <<>> => dom.attrs[n] = {})

C10_Witness ==
  /\ Done1 /\ scope = Root /\ policy.directive = Restrictive
  /\ policy.attr_exclude_checkers # <<>>
  /\ \E n \in Live(dom) :
       /\ dom.name[n] = "a"
       /\ dom.attrs[n] = dom0.attrs[n]
       /\ Cardinality(dom0.attrs[n]) = 2
  /\ \E n \in Live(dom) :
       /\ dom.name[n] = "div"
       /\ dom.attrs[n] = {}
       /\ dom0.attrs[n] # {}


\* C11: under Permissive every kept element ends with exactly those of its
\* attributes, values unchanged, that match no attribute rule that is global
\* or scoped to its own name; a rule scoped to another name removes nothing
\* from it.
C11_PermissiveAttrs ==
  (Done1 /\ scope = Root /\ policy.directive = Permissive) =>
    \A n \in Live(dom) :
      is_element(dom, n) =>
        dom.attrs[n] =
          {a \in dom0.attrs[n] : a[1] \notin AllowedAttrNames(policy, dom0.name[n])}

C11_Witness ==
  /\ Done1 /\ scope = Root /\ policy.directive = Permissive
  /\ \E i \in 1..Len(policy.attr_exclude_checkers) :
       policy.attr_exclude_checkers[i] = AttrMatcher("a", {"href"})
  /\ \E n \in Live(dom) :
       /\ dom.name[n] = "a"
       /\ has_attr(dom0, n, "href")
       /\ ~has_attr(dom, n, "href")
  /\ \E n \in Live(dom) :
       /\ dom.name[n] = "div"
       /\ has_attr(dom, n, "href")
       /\ dom.attrs[n] = dom0.attrs[n]


\* Scenario A has run: the three-block document, sanitize_document with the
\* Restrictive policy that excludes {p, a} and lists role (global) and href
\* (on a).
ScenarioA ==
  /\ Done1 /\ scope = Root
  /\ dom0 = ParagraphDoc
  /\ policy = ParagraphAttrsPolicy

\* The elements named nm that are in the document.
Named(nm) == {n \in Live(dom) : is_element(dom, n) /\ dom.name[n] = nm}
\* The p > a pairs, and the elements that carry attribute key.
PairsPA == {n \in Named("a") : dom.par[n] \in Named("p")}
Carrying(key) == {n \in Live(dom) : is_element(dom, n) /\ has_attr(dom, n, key)}

ScenarioA_Structure ==
  /\ Named("div") = {}
  /\ Cardinality(PairsPA) = 3
  /\ Cardinality({n \in Named("a") : has_attr(dom, n, "href")}) = 3

\* C12 as stated: Scenario A yields 0 div, 3 p > a pairs, 3 a[href] and no
\* element that carries a role attribute.
C12_ScenarioA_NoRole ==
  ScenarioA => ScenarioA_Structure /\ Carrying("role") = {}

\* C12 as the code has it: Scenario A yields 0 div, 3 p > a pairs, 3 a[href],
\* and 6 elements that carry role: the 3 p and the 3 a keep every attribute
\* they had, the listed attributes being the ones a Restrictive policy retains.
C12_ScenarioA_RoleKept ==
  ScenarioA =>
    /\ ScenarioA_Structure
    /\ Carrying("role") = Named("p") \cup Named("a")
    /\ Cardinality(Carrying("role")) = 6
    /\ \A n \in Named("p") \cup Named("a") : dom.attrs[n] = dom0.attrs[n]

C12_Witness ==
  /\ ScenarioA
  /\ Cardinality(Carrying("role") \cap (Named("p") \cup Named("a"))) = 6


\* ------------------------------------------------- the attribute matcher
\* Strings are sequences of one-character strings.
\* The longest element value and the longest matcher value.
MaxStr == 3
MaxPattern == 2
MatchChars == {"a", "A", " ", "-"}
Strs(A, n) == UNION {[1..k -> A] : k \in 0..n}

\* static SELECTOR_WHITESPACE
SELECTOR_WHITESPACE == {" ", "\t", "\n", "\r", "\f"}

\* e.starts_with(s), e.ends_with(s), e.contains(s)
starts_with(e, s) == Len(s) <= Len(e) /\ SubSeq(e, 1, Len(s)) = s
ends_with(e, s) == Len(s) <= Len(e) /\ SubSeq(e, Len(e) - Len(s) + 1, Len(e)) = s
contains(e, s) ==
  \E i \in 0..(Len(e) - Len(s)) : SubSeq(e, i + 1, i + Len(s)) = s

RECURSIVE SplitFrom(_, _, _)
\* str::split(&[char]): the pieces between separators, empty pieces included;
\* cur is the piece being read.
SplitFrom(e, cur, seps) ==
  IF e = <<>> THEN <<cur>>
  ELSE IF Head(e) \in seps THEN <<cur>> \o SplitFrom(Tail(e), <<>>, seps)
  ELSE SplitFrom(Tail(e), Append(cur, Head(e)), seps)
split(e, seps) == SplitFrom(e, <<>>, seps)

AttrOperator == {"Equals", "Includes", "DashMatch", "Prefix", "Suffix", "Substring"}
AttrValue(op, value) == [op |-> op, value |-> value]

\* Variant of AttrValue::is_match whose Includes looks for the value anywhere
\* in the element value.
AttrValue_is_match_by_substring(v, elem_value) ==
  IF elem_value = <<>> THEN FALSE
  ELSE CASE v.op = "Equals" -> elem_value = v.value
         [] v.op = "Includes" -> contains(elem_value, v.value)
         [] v.op = "DashMatch" ->
              \/ elem_value = v.value
              \/ /\ starts_with(elem_value, v.value)
                 /\ Len(elem_value) > Len(v.value)
                 /\ elem_value[Len(v.value) + 1] = "-"
         [] v.op = "Prefix" -> starts_with(elem_value, v.value)
         [] v.op = "Suffix" -> ends_with(elem_value, v.value)
         [] v.op = "Substring" -> contains(elem_value, v.value)

\* AttrValue::is_match
AttrValue_is_match(v, elem_value) ==
  IF elem_value = <<>> THEN FALSE
  ELSE CASE v.op = "Equals" -> elem_value = v.value
         [] v.op = "Includes" ->
              \E i \in DOMAIN split(elem_value, SELECTOR_WHITESPACE) :
                split(elem_value, SELECTOR_WHITESPACE)[i] = v.value
         [] v.op = "DashMatch" ->
              \/ elem_value = v.value
              \/ /\ starts_with(elem_value, v.value)
                 /\ Len(elem_value) > Len(v.value)
                 /\ elem_value[Len(v.value) + 1] = "-"
         [] v.op = "Prefix" -> starts_with(elem_value, v.value)
         [] v.op = "Suffix" -> ends_with(elem_value, v.value)
         [] v.op = "Substring" -> contains(elem_value, v.value)

\* The calls matcher_value.is_match(&a.value) under check.
MatchCalls ==
  {[fn |-> "is_match", matcher |-> AttrValue(op, s), elem_value |-> e] :
     op \in AttrOperator, s \in Strs(MatchChars, MaxPattern), e \in Strs(MatchChars, MaxStr)}


\* ---------------------------------------------------- the matcher parser
\* nom results: Ok((rest, val)), Err(Error) (recoverable) and Err(Failure)
\* (raised by cut, not recoverable).
POk(rest, val) == [kind |-> "Ok", rest |-> rest, val |-> val]
PError == [kind |-> "Error"]
PFailure == [kind |-> "Failure"]

RECURSIVE TakeWhile(_, _)
\* The longest prefix of input whose characters are in set S.
TakeWhile(input, S) ==
  IF input # <<>> /\ Head(input) \in S THEN <<Head(input)>> \o TakeWhile(Tail(input), S)
  ELSE <<>>
Drop(input, k) == SubSeq(input, k + 1, Len(input))

\* c.is_ascii_alphanumeric() || c == '-', over the characters the inputs use.
KeyChars == {"k", "v", "x", "-"}
\* Every character the inputs use.
InputChars == {"k", "v", "x", "-", "[", "]", "=", "~", "|", "^", "$", "*",
               "!", "<", ">", " ", "\""}
\* nom's multispace0: spaces, tabs, carriage returns and line feeds.
Multispace == {" ", "\t", "\r", "\n"}

\* char(c)
char(input, c) ==
  IF input # <<>> /\ Head(input) = c THEN POk(Tail(input), c) ELSE PError

\* take_while1(|c| c.is_ascii_alphanumeric() || c == '-')
parse_attr_key(input) ==
  LET key == TakeWhile(input, KeyChars)
  IN IF key = <<>> THEN PError ELSE POk(Drop(input, Len(key)), key)

\* The tags of parse_attr_operator's alt, in its order.
OperatorTags ==
  << <<<<"~", "=">>, "Includes">>, <<<<"|", "=">>, "DashMatch">>,
     <<<<"^", "=">>, "Prefix">>, <<<<"$", "=">>, "Suffix">>,
     <<<<"*", "=">>, "Substring">>, <<<<"=">>, "Equals">> >>

RECURSIVE AltTags(_, _)
\* alt((map(tag(..), ..), ..)): the first tag that input starts with.
AltTags(input, tags) ==
  IF tags = <<>> THEN PError
  ELSE IF starts_with(input, Head(tags)[1])
       THEN POk(Drop(input, Len(Head(tags)[1])), Head(tags)[2])
       ELSE AltTags(input, Tail(tags))

\* Sequencing, as in a tuple, preceded or delimited: the next parser runs on
\* what the first one left; an Error or a Failure of the first is the result.
AndThen(r, then(_)) == IF r.kind # "Ok" THEN r ELSE then(r)

\* map: the value of an Ok result is replaced.
Map(r, f(_)) == IF r.kind = "Ok" THEN POk(r.rest, f(r.val)) ELSE r

\* alt and opt: the second result stands only after an Error of the first.
Alt(r, second) == IF r.kind = "Error" THEN second ELSE r

\* delimited(multispace0, alt((..)), multispace0)
parse_attr_operator(input) ==
  AndThen(AltTags(Drop(input, Len(TakeWhile(input, Multispace))), OperatorTags),
          LAMBDA r : POk(Drop(r.rest, Len(TakeWhile(r.rest, Multispace))), r.val))

\* cut(terminated(is_not("\""), char('"'))): anything but Ok is a Failure.
CutTerminated(input) ==
  LET body == TakeWhile(input, InputChars \ {"\""})
  IN IF body = <<>> THEN PFailure
     ELSE IF char(Drop(input, Len(body)), "\"").kind # "Ok" THEN PFailure
     ELSE POk(Drop(input, Len(body) + 1), body)

\* preceded(char('"'), cut(terminated(is_not("\""), char('"'))))
QuotedValue(input) ==
  AndThen(char(input, "\""), LAMBDA q : CutTerminated(q.rest))

\* parse_attr_value: the operator, then alt((quoted, rest)).
parse_attr_value(input) ==
  AndThen(parse_attr_operator(input),
          LAMBDA o : Map(Alt(QuotedValue(o.rest), POk(<<>>, o.rest)),
                         LAMBDA v : AttrValue(o.val, v)))

NoValue == [op |-> "None", value |-> <<>>]
\* opt(parse_attr_value): an Error becomes None, a Failure stays.
OptValue(input) == Alt(parse_attr_value(input), POk(input, NoValue))

\* (parse_attr_key, opt(parse_attr_value))
KeyValue(input) ==
  AndThen(parse_attr_key(input),
          LAMBDA k : Map(OptValue(k.rest), LAMBDA v : [key |-> k.val, value |-> v]))

\* delimited(char('['), (parse_attr_key, opt(parse_attr_value)), char(']'))
Bracketed(input) ==
  AndThen(char(input, "["),
          LAMBDA b : AndThen(KeyValue(b.rest),
                             LAMBDA kv : Map(char(kv.rest, "]"), LAMBDA e : kv.val)))

\* parse_attr: alt((bracketed, bare)); alt goes on to the second parser only
\* after an Error.
parse_attr(input) == Alt(Bracketed(input), KeyValue(input))

\* AttrMatcher::parse: let (_, m) = parse_attr(input)?; Ok(m)
AttrMatcher_parse(input) ==
  LET r == parse_attr(input)
  IN IF r.kind = "Ok" THEN [kind |-> "Ok", matcher |-> r.val] ELSE [kind |-> "Err"]


\* The operators as written, and things written in an operator's place that
\* are none of them.
OperatorStrings ==
  { <<"~", "=">>, <<"|", "=">>, <<"^", "=">>, <<"$", "=">>, <<"*", "=">>, <<"=">> }
UnknownOperators == { <<"!", "=">>, <<"~">>, <<"<", ">">>, <<"!">> }

\* The inputs of AttrMatcher::parse under check:
\*   pre key ws mid ws val post
ParseInputs ==
  {pre \o key \o ws \o mid \o ws \o val \o post :
     pre \in {<<>>, <<"[">>},
     key \in {<<>>, <<"k">>, <<"k", "-">>},
     ws \in {<<>>, <<" ">>},
     mid \in {<<>>} \cup OperatorStrings \cup UnknownOperators,
     val \in {<<>>, <<"v">>, <<"\"", "v", "\"">>, <<"\"", "v">>, <<"\"", "\"">>},
     post \in {<<>>, <<"]">>, <<"]", "x">>}}

ParseCalls == {[fn |-> "parse", input |-> i] : i \in ParseInputs}

\* The checker lists of a rule category, up to MaxCheckers long.
MaxCheckers == 3
NodeCheckers ==
  {LocalNamesMatcher({"div"}), LocalNamesMatcher({"a"}), ExcludeOnlyHttps,
   ExcludeNonEmptyDiv}
AttrCheckers ==
  {AttrMatcher(AnyElement, {"role"}), AttrMatcher("a", {"href"}),
   AttrMatcher("div", {"href", "id"})}

\* A policy with one rule category filled.
PolicyWith(category, cs) ==
  [directive |-> Restrictive,
   exclude_checkers |-> IF category = "exclude" THEN cs ELSE <<>>,
   remove_checkers |-> IF category = "remove" THEN cs ELSE <<>>,
   attr_exclude_checkers |-> IF category = "attr" THEN cs ELSE <<>>]

\* policy.should_exclude(node), policy.should_remove(node)
NodeFoldCalls ==
  {[fn |-> f, policy |-> PolicyWith(IF f = "should_exclude" THEN "exclude" ELSE "remove", cs),
    checkers |-> cs, doc |-> d, node |-> n] :
     f \in {"should_exclude", "should_remove"},
     cs \in Strs(NodeCheckers, MaxCheckers),
     <<d, n>> \in {x \in CheckerDocs \X (0..15) : x[2] \in NodesOf(x[1])}}

\* policy.should_exclude_attr(node, attr)
AttrFoldCalls ==
  {[fn |-> "should_exclude_attr", policy |-> PolicyWith("attr", cs),
    checkers |-> cs, doc |-> x[1], node |-> x[2], attr |-> x[3]] :
     cs \in Strs(AttrCheckers, MaxCheckers),
     x \in {y \in CheckerDocs \X (0..15) \X
                   ({"href", "role", "id"} \X {"/first", "https://x", "link", "paragraph", "/div", "d"}) :
               y[2] \in NodesOf(y[1]) /\ y[3] \in y[1].attrs[y[2]]}}

\* PolicyBuilder::new
PolicyBuilder_new(directive) ==
  [directive |-> directive, exclude_checkers |-> <<>>, remove_checkers |-> <<>>,
   attr_exclude_checkers |-> <<>>]

\* intern_strings: one LocalName for each string of the slice.
intern_strings(elements) == [i \in 1..Len(elements) |-> LocalNamesMatcher({elements[i]})]

\* self.elements_to_exclude.extend(intern_strings(elements))
PolicyBuilder_exclude_elements(b, elements) ==
  [b EXCEPT !.exclude_checkers = @ \o intern_strings(elements)]

\* self.elements_to_remove.extend(intern_strings(elements))
PolicyBuilder_remove_elements(b, elements) ==
  [b EXCEPT !.remove_checkers = @ \o intern_strings(elements)]

\* self.attrs_to_exclude.push(AttributeRule { element: None, attributes: attrs })
PolicyBuilder_exclude_attrs(b, attrs) ==
  [b EXCEPT !.attr_exclude_checkers = Append(@, AttrMatcher(AnyElement, attrs))]

\* self.attrs_to_exclude.push(AttributeRule { element: Some(element), .. })
PolicyBuilder_exclude_element_attrs(b, element, attrs) ==
  [b EXCEPT !.attr_exclude_checkers = Append(@, AttrMatcher(element, attrs))]

\* Variant of merge in which the merged policy's lists take the place of the
\* builder's.
PolicyBuilder_merge_replacing(b, other) ==
  [b EXCEPT !.attr_exclude_checkers = other.attr_exclude_checkers,
            !.exclude_checkers = other.exclude_checkers,
            !.remove_checkers = other.remove_checkers]

\* PolicyBuilder::merge: the three lists extended by the other policy's.
PolicyBuilder_merge(b, other) ==
  [b EXCEPT !.attr_exclude_checkers = @ \o other.attr_exclude_checkers,
            !.exclude_checkers = @ \o other.exclude_checkers,
            !.remove_checkers = @ \o other.remove_checkers]

\* PolicyBuilder::build: the lists move into the Policy.
PolicyBuilder_build(b) ==
  [directive |-> b.directive,
   exclude_checkers |-> b.exclude_checkers,
   remove_checkers |-> b.remove_checkers,
   attr_exclude_checkers |-> b.attr_exclude_checkers]

\* The policies that are merged: built from a few element and attribute
\* lists, some of them overlapping.
ExcludeLists == {<<>>, <<"div">>, <<"a">>, <<"p", "a">>}
RemoveLists == {<<>>, <<"div">>, <<"a">>}
AttrLists == {"none", "role", "a.href"}
BuiltPolicy(directive, ex, rm, at) ==
  LET b0 == PolicyBuilder_remove_elements(
              PolicyBuilder_exclude_elements(PolicyBuilder_new(directive), ex), rm)
      b1 == CASE at = "role" -> PolicyBuilder_exclude_attrs(b0, {"role"})
              [] at = "a.href" -> PolicyBuilder_exclude_element_attrs(b0, "a", {"href", "role"})
              [] OTHER -> b0
  IN PolicyBuilder_build(b1)
BuiltPolicies(directive) ==
  {BuiltPolicy(directive, ex, rm, at) : ex \in ExcludeLists, rm \in RemoveLists, at \in AttrLists}

\* Policy::builder().merge(a).merge(b).build()
Merged(a, b) ==
  PolicyBuilder_build(
    PolicyBuilder_merge(PolicyBuilder_merge(PolicyBuilder_new(a.directive), a), b))

\* merge(a, b), merge(b, a) and merge(a, a) built and each run on a copy of doc.
MergeCalls ==
  UNION {{[fn |-> "merge", a |-> x[1], b |-> x[2], doc |-> d] :
            x \in BuiltPolicies(dir) \X BuiltPolicies(dir), d \in CheckerDocs} :
         dir \in {Permissive, Restrictive}}

\* A pure-function call waits to run; no sanitize call is in progress.
InitFn ==
  /\ dom = ParagraphDoc
  /\ policy = ParagraphAttrsPolicy
  /\ engine = Iterative
  /\ scope = Root
  /\ pc = "idle"
  /\ next_node = None
  /\ stack = <<>>
  /\ pass = 1
  /\ dom0 = dom
  /\ dom1 = dom
  /\ log = <<>>
  /\ call \in MatchCalls \cup ParseCalls \cup NodeFoldCalls \cup AttrFoldCalls
              \cup MergeCalls
  /\ ret = NoRet
  /\ parked = NoThread

\* matcher_value.is_match(&a.value)
IsMatch ==
  /\ call.fn = "is_match" /\ ret = NoRet
  /\ ret' = [kind |-> "bool", val |-> AttrValue_is_match(call.matcher, call.elem_value)]
  /\ UNCHANGED <<call, svars, parked>>

\* AttrMatcher::parse(input)
Parse ==
  /\ call.fn = "parse" /\ ret = NoRet
  /\ ret' = AttrMatcher_parse(call.input)
  /\ UNCHANGED <<call, svars, parked>>

\* policy.should_exclude(node) / policy.should_remove(node), with the
\* checkers the loop evaluated.
ShouldMatch ==
  /\ call.fn \in {"should_exclude", "should_remove"} /\ ret = NoRet
  /\ ret' = [kind |-> "bool",
             val |-> IF call.fn = "should_exclude"
                     THEN should_exclude(call.policy, call.doc, call.node)
                     ELSE should_remove(call.policy, call.doc, call.node),
             evaluated |-> Evaluated(call.checkers, call.doc, call.node)]
  /\ UNCHANGED <<call, svars, parked>>

\* policy.should_exclude_attr(node, attr)
ShouldMatchAttr ==
  /\ call.fn = "should_exclude_attr" /\ ret = NoRet
  /\ ret' = [kind |-> "bool",
             val |-> should_exclude_attr(call.policy, call.doc, call.node, call.attr),
             evaluated |-> EvaluatedAttr(call.checkers, call.doc, call.node, call.attr)]
  /\ UNCHANGED <<call, svars, parked>>

\* The merged policies are built and each sanitizes its own copy of the
\* document.
Merge ==
  /\ call.fn = "merge" /\ ret = NoRet
  /\ ret' = [kind |-> "merge",
             merged |-> Merged(call.a, call.b),
             ab |-> sanitize_node(Iterative, Merged(call.a, call.b), call.doc, Root),
             ba |-> sanitize_node(Iterative, Merged(call.b, call.a), call.doc, Root),
             aa |-> sanitize_node(Iterative, Merged(call.a, call.a), call.doc, Root),
             a |-> sanitize_node(Iterative, call.a, call.doc, Root)]
  /\ UNCHANGED <<call, svars, parked>>

NextFn ==
  \/ IsMatch
  \/ Parse
  \/ ShouldMatch
  \/ ShouldMatchAttr
  \/ Merge

SpecFn == InitFn /\ [][NextFn]_vars

\* The whitespace-separated tokens of e: its maximal runs of characters that
\* are not whitespace.
Tokens(e) ==
  {SubSeq(e, i, j) : <<i, j>> \in
     {x \in (1..Len(e)) \X (1..Len(e)) :
        /\ x[1] <= x[2]
        /\ \A k \in x[1]..x[2] : e[k] \notin SELECTOR_WHITESPACE
        /\ (x[1] = 1 \/ e[x[1] - 1] \in SELECTOR_WHITESPACE)
        /\ (x[2] = Len(e) \/ e[x[2] + 1] \in SELECTOR_WHITESPACE)}}

\* The operator table of the matcher language.
OperatorTable(op, E, S) ==
  CASE op = "Equals" -> E = S
    [] op = "Includes" -> S \in Tokens(E)
    [] op = "DashMatch" -> E = S \/ \E k \in 1..Len(E) : SubSeq(E, 1, k) = S \o <<"-">>
    [] op = "Prefix" -> \E k \in 0..Len(E) : SubSeq(E, 1, k) = S
    [] op = "Suffix" -> \E k \in 0..Len(E) : SubSeq(E, k + 1, Len(E)) = S
    [] op = "Substring" -> \E i \in 1..(Len(E) + 1), j \in 0..Len(E) : SubSeq(E, i, j) = S

Matched == call.fn = "is_match" /\ ret # NoRet
Parsed == call.fn = "parse" /\ ret # NoRet

\* C13: for non-empty E and S, AttrValue::is_match(E) is the operator table,
\* case-sensitively: = equality, ~= S is a whitespace-separated token of E, |= E is S or starts
\* with S followed by '-', ^= prefix, $= suffix, *= substring.
C13_OperatorTable ==
  (Matched /\ call.elem_value # <<>> /\ call.matcher.value # <<>>) =>
    ret.val = OperatorTable(call.matcher.op, call.elem_value, call.matcher.value)

\* Includes("a a", "a") and DashMatch("a-a", "a") are true, Includes("aa", "a")
\* and DashMatch("aa", "a") are false.
C13_Witness ==
  /\ Matched
  /\ call.matcher = AttrValue("DashMatch", <<"a">>)
  /\ call.elem_value = <<"a", "-", "A">>
  /\ ret.val = TRUE

\* C14: under =, ~= and |=, AttrValue::is_match is false whenever E is empty
\* or S is empty.
C14_EmptyNeverMatches ==
  (/\ Matched
   /\ call.matcher.op \in {"Equals", "Includes", "DashMatch"}
   /\ (call.elem_value = <<>> \/ call.matcher.value = <<>>))
  => ret.val = FALSE

\* Inputs with an unterminated bracket, an unterminated quoted value, or an
\* operator that is not followed by a value.
Unterminated ==
  {<<"[", "k">>}
  \cup {pre \o <<"k">> \o op \o <<"\"", "v">> :
          pre \in {<<>>, <<"[">>}, op \in OperatorStrings}
  \cup {<<"[", "k", "~", "]">>}
  \cup {<<"k">> \o op : op \in OperatorStrings}
  \cup {<<"[", "k">> \o op \o <<"]">> : op \in OperatorStrings}

\* C15: AttrMatcher::parse returns an error for every input with an
\* unterminated bracket, an unterminated quoted value or an operator without
\* the value it requires.
C15_MalformedRejected ==
  (Parsed /\ call.input \in Unterminated) => ret.kind = "Err"

\* Inputs whose key is followed by something that is not an operator.
KeyThenUnknown ==
  {pre \o <<"k">> \o u \o <<"v">> \o post :
     pre \in {<<>>}, u \in UnknownOperators, post \in {<<>>}}
  \cup {<<"[", "k">> \o u \o <<"v", "]">> : u \in UnknownOperators}
  \cup {<<"[", "k", "]", "x">>}

\* C16: AttrMatcher::parse returns an error for every input whose key is
\* followed by something that is not one of the six operators.
C16_UnknownOperatorRejected ==
  (Parsed /\ call.input \in KeyThenUnknown) => ret.kind = "Err"


\* The checker lists that are a reordering of cs.
Reorderings(cs) ==
  {[i \in 1..Len(cs) |-> cs[f[i]]] : f \in Permutations(1..Len(cs))}

\* Checker c answers true on the call's node (and attribute).
Hit(c) ==
  IF call.fn = "should_exclude_attr"
  THEN is_match_attr(c, call.doc, call.node, call.attr)
  ELSE is_match(c, call.doc, call.node)

\* What the call's function answers on the checker list cs.
Fold(cs) ==
  CASE call.fn = "should_exclude" ->
         should_exclude(PolicyWith("exclude", cs), call.doc, call.node)
    [] call.fn = "should_remove" ->
         should_remove(PolicyWith("remove", cs), call.doc, call.node)
    [] call.fn = "should_exclude_attr" ->
         should_exclude_attr(PolicyWith("attr", cs), call.doc, call.node, call.attr)

Folded ==
  call.fn \in {"should_exclude", "should_remove", "should_exclude_attr"} /\ ret # NoRet

\* C17: should_exclude, should_remove and should_exclude_attr are the logical
\* OR over the category's checker list: true iff some checker answers true,
\* false for the empty list, the same for every reordering of the list, and
\* no checker is evaluated after the first that answers true.
C17_OrFold ==
  Folded =>
    LET cs == call.checkers IN
      /\ ret.val = (\E i \in 1..Len(cs) : Hit(cs[i]))
      /\ (cs = <<>> => ret.val = FALSE)
      /\ \A q \in Reorderings(cs) : Fold(q) = ret.val
      /\ ret.evaluated = SubSeq(cs, 1, Len(ret.evaluated))
      /\ \A k \in 1..(Len(ret.evaluated) - 1) : ~Hit(ret.evaluated[k])
      /\ (ret.val = FALSE => ret.evaluated = cs)

C17_Witness ==
  /\ Folded
  /\ call.fn = "should_exclude"
  /\ Len(call.checkers) = 3
  /\ ~Hit(call.checkers[1])
  /\ Hit(call.checkers[2])
  /\ ret.val = TRUE
  /\ Len(ret.evaluated) = 2

\* The merge call has run.
MergeDone == call.fn = "merge" /\ ret # NoRet

\* C18: PolicyBuilder::merge appends the merged policy's attribute rules,
\* excluded elements and removed elements to the builder's, and duplicates
\* are harmless: the policy built from merge(A, B) leaves every tree as the
\* one built from merge(B, A) does, and the one from merge(A, A) leaves it
\* as A does.
C18_MergeHarmless ==
  MergeDone =>
    /\ ret.merged.attr_exclude_checkers =
         call.a.attr_exclude_checkers \o call.b.attr_exclude_checkers
    /\ ret.merged.exclude_checkers = call.a.exclude_checkers \o call.b.exclude_checkers
    /\ ret.merged.remove_checkers = call.a.remove_checkers \o call.b.remove_checkers
    /\ View(ret.ab) = View(ret.ba)
    /\ View(ret.aa) = View(ret.a)

\* Two different policies with rules in all three lists, overlapping in the
\* excluded elements, whose merge does what neither does alone.
C18_Witness ==
  /\ MergeDone
  /\ call.a # call.b
  /\ \A q \in {call.a, call.b} :
       q.exclude_checkers # <<>> /\ q.remove_checkers # <<>> /\ q.attr_exclude_checkers # <<>>
  /\ ExcludeNames(call.a) \cap ExcludeNames(call.b) # {}
  /\ View(ret.ab) # View(ret.a)
  /\ View(ret.ab) # View(call.doc)

\* Both threads' calls have returned.
BothDone == pc = "done" /\ parked # NoThread /\ parked.pc = "done"

\* C19: sanitize never writes to the built policy, and two calls that share
\* it and run on their own trees do not interfere: whatever the interleaving
\* of their steps, every step leaves the policy's rule lists as they were,
\* and when both calls have returned each tree is the one its call produces
\* when it runs alone.
C19_SharedPolicy ==
  [][/\ policy' = policy
     /\ BothDone' =>
          /\ dom' = sanitize_node(engine', policy, dom0', scope')
          /\ parked'.dom = sanitize_node(parked'.engine, policy, parked'.dom0, parked'.scope)]_vars

\* Both calls have returned, each after several decisions, and both changed
\* their trees, which were different documents.
C19_Witness ==
  /\ BothDone
  /\ policy.exclude_checkers # <<>>
  /\ Len(log) >= 2 /\ Len(parked.log) >= 2
  /\ View(dom) # View(dom0)
  /\ View(parked.dom) # View(parked.dom0)
  /\ dom0 # parked.dom0

\* Two text nodes next to each other in the child list of n.
AdjacentText(d, n) ==
  \E i \in 1..(Len(d.kids[n]) - 1) : is_text(d, d.kids[n][i]) /\ is_text(d, d.kids[n][i + 1])

\* The body element of the documents.
Body == 3

\* C20: when sanitize_node(root) has returned, no node of root's subtree has
\* two text nodes next to each other among its children: the text nodes that
\* unwrapping brought side by side are merged.  A Restrictive policy without
\* rules, run on a document with text in its body, leaves body with exactly
\* one descendant, a text node.
C20_NoAdjacentText ==
  pc = "done" =>
    /\ \A n \in Subtree(dom, scope) : ~AdjacentText(dom, n)
    /\ (policy.directive = Restrictive /\ is_empty(policy) /\ scope = Root
        /\ text(dom0, Body) # <<>>) =>
         /\ Cardinality(Descendants(dom, Body)) = 1
         /\ \A n \in Descendants(dom, Body) : is_text(dom, n)

\* The call has returned after unwrapping, and a text node of the result
\* holds more text than it did in the input: text nodes were merged into it.
C20_Witness ==
  /\ Done1
  /\ Unwrapped # {}
  /\ \E n \in Subtree(dom, scope) :
       is_text(dom, n) /\ Len(dom.text[n]) > Len(dom0.text[n])

\* C21: sanitize is total and terminates.  Every call that starts returns
\* (the loop ends with the cursor None, the recursion unwinds), also when
\* nodes are removed or unwrapped on the way, and it takes no more decisions
\* than the tree has nodes.
C21_Terminates ==
  /\ [](Len(log) <= Cardinality(NodesOf(dom0)))
  /\ (pc = "start") ~> (pc = "done")

\* A call returned after removing one node and unwrapping another.
C21_Witness ==
  /\ pc = "done"
  /\ RemovedRoots # {} /\ Unwrapped # {}
  /\ next_node = None /\ stack = <<>>

\* C22: text nodes are never excluded or unwrapped by sanitize, under either
\* directive and whatever the policy, one whose Exclude checker answers true
\* for a text node included: every node the exclude/unwrap step takes out of
\* the tree is an element.
C22_OnlyElementsUnwrapped ==
  \A i \in 1..Len(log) : log[i].op = "unwrap" => is_element(dom0, log[i].node)

\* The nodes that have received a decision in the current call.
Decided == {log[i].node : i \in 1..Len(log)}

C24_WorksOnAttached ==
  \A e \in Evaluations : Attached(e[1], e[2])

\* C25: for a policy whose checkers read only an element's name and an
\* attribute's name, sanitize_document is idempotent under both directives: a
\* second run on the sanitized document removes no node, unwraps no node and
\* strips no attribute.
C25_NameBasedIdempotent ==
  (Done2 /\ NameBased(policy) /\ scope = Root /\ engine = Iterative) =>
    /\ \A i \in 1..Len(log) : log[i].op = "keep"
    /\ \A n \in Live(dom1) : Attached(dom, n) /\ dom.attrs[n] = dom1.attrs[n]
    /\ View(dom) = View(dom1)

\* The first run removed, unwrapped and stripped attributes; the second run
\* has returned.
C25_Witness ==
  /\ Done2 /\ NameBased(policy) /\ scope = Root /\ engine = Iterative
  /\ \E n \in Live(dom0) : ~Attached(dom1, n) /\ dom0.kids[n] # <<>>
  /\ \E n \in Live(dom1) : dom1.attrs[n] # dom0.attrs[n]
  /\ policy.remove_checkers # <<>> /\ policy.exclude_checkers # <<>>
  /\ Len(log) >= 2

\* The elements of the input that are not inside a removed subtree.
OutsideRemoved ==
  {n \in Live(dom0) : is_element(dom0, n)
                      /\ \A r \in RemovedRoots : n \notin Descendants(dom0, r)}

\* C26: in one sanitize_document call of the cursor engine every element of
\* the input that is not inside a removed subtree receives exactly one
\* decision (remove, unwrap or keep): none is skipped and none is decided
\* twice, the element children of an unwrapped node included.
C26_EachElementOnce ==
  (Done1 /\ engine = Iterative /\ scope = Root) =>
    /\ Decided = OutsideRemoved
    /\ \A i, j \in 1..Len(log) : log[i].node = log[j].node => i = j

\* C26 as the code has it: the same, except that a Permissive policy without
\* any rule returns before the loop and decides no element at all.
C26_EachElementOnceUnlessEmpty ==
  (Done1 /\ engine = Iterative /\ scope = Root) =>
    IF policy.directive = Permissive /\ is_empty(policy)
      THEN log = <<>>
      ELSE /\ Decided = OutsideRemoved
           /\ \A i, j \in 1..Len(log) : log[i].node = log[j].node => i = j

\* An element with an element child was unwrapped, the promoted child was
\* decided, another node was removed, and the call has returned.
C26_Witness ==
  /\ Done1 /\ engine = Iterative /\ scope = Root
  /\ \E u \in Unwrapped : \E c \in SeqToSet(dom0.kids[u]) :
       is_element(dom0, c) /\ c \in Decided
  /\ RemovedRoots # {}

\* C27: for every name-based policy and every document the cursor engine
\* (decision on the parent before its children) and the recursive engine
\* (children sanitized before the parent's decision), both started at the
\* document root, end with the same tree: same surviving elements, same
\* parent/child structure and sibling order, same attributes, same text.
C27_EnginesAgree ==
  (Done1 /\ NameBased(policy) /\ scope = Root /\ engine \in {Iterative, Recursive}) =>
    View(dom) = View(sanitize_node(IF engine = Iterative THEN Recursive ELSE Iterative,
                                   policy, dom0, Root))

\* A run from the root under a name-based policy that unwrapped an element
\* with an element child, removed another one and stripped an attribute.
C27_Witness ==
  /\ Done1 /\ NameBased(policy) /\ scope = Root /\ engine \in {Iterative, Recursive}
  /\ \E u \in Unwrapped : \E c \in SeqToSet(dom0.kids[u]) : is_element(dom0, c)
  /\ RemovedRoots # {}
  /\ \E n \in Live(dom) : dom.attrs[n] # dom0.attrs[n]


\* No node of the input matches a Remove rule of the policy.
NothingToRemove == \A n \in NodesOf(dom0) : ~should_remove(policy, dom0, n)

\* C28: sanitize never loses or reorders text when nothing is removed: under
\* a policy no node matches a Remove rule of, the concatenation of the text
\* node contents of the scope's subtree in document order is the same before
\* and after the call.
C28_TextKept ==
  (Done1 /\ NothingToRemove) => text(dom, scope) = text(dom0, scope)

\* The element nodes attached under sc in d.
ElementsUnder(d, sc) == {n \in Descendants(d, sc) : is_element(d, n)}

\* The elements of `keep' in the document order of d.
ElementOrder(d, keep) ==
  LET InKeep(n) == n \in keep
  IN SelectSeq(PreOrder(d, Root), InKeep)

\* C29: sanitize only deletes and re-parents: at every step of a call the
\* elements attached under the scope are among those attached under it before
\* the call, no attribute was added or had its value changed, and two
\* elements that are both still in the document are in the order they had.
C29_OnlyDeletesAndReparents ==
  /\ ElementsUnder(dom, scope) \subseteq ElementsUnder(dom0, scope)
  /\ \A n \in NodesOf(dom) : dom.attrs[n] \subseteq dom0.attrs[n]
  /\ LET survivors == ElementsUnder(dom, Root)
     IN ElementOrder(dom, survivors) = ElementOrder(dom0, survivors)

\* In the middle of a call: one element was unwrapped and its element child
\* promoted, another was removed, an attribute was stripped, and decisions
\* are still to come.
C29_Witness ==
  /\ pc \in {"iter", "rec"} /\ pass = 1
  /\ \E u \in Unwrapped : \E c \in SeqToSet(dom0.kids[u]) :
       is_element(dom0, c) /\ c \in ElementsUnder(dom, scope)
  /\ RemovedRoots # {}
  /\ \E n \in Live(dom) : dom.attrs[n] # dom0.attrs[n]


\* C30: the scoped cursor helper next_child_or_sibling(node, ignore_child,
\* scope) returns None or a proper descendant of scope, for every node of
\* scope's subtree, scope itself included, also when scope has no element
\* child while scope or one of its ancestors has a following element sibling.
C30_CursorStaysInScope ==
  (engine = Scoped /\ pc # "start") =>
    \A n \in Subtree(dom, scope) : \A ignore_child \in BOOLEAN :
      LET r == next_child_or_sibling_scoped(dom, n, ignore_child, scope)
      IN r = None \/ r \in Descendants(dom, scope)

====
